---------------------------- MODULE Spec2Model ----------------------------
(***************************************************************************)
(* A model of the itinerary engine of travelfai_app,                       *)
(* client/src/lib/tripRecommendation.ts (class TripRecommendationEngine):  *)
(* the greedy day loop, the candidate router, the city scorer, the         *)
(* activity selector, the cost estimator, the time-slot table and the      *)
(* request validator; and of the city recommendations served by            *)
(* server/routes.ts and server/openai.ts and shown by                      *)
(* CityRecommendationCard.                                                 *)
(*                                                                         *)
(* Conventions.  JavaScript arrays are sequences (1-based here, 0-based    *)
(* in the source; every index conversion is written out).  Strings are     *)
(* TLA+ strings taken from a small alphabet; toLowerCase and               *)
(* String.includes are given on that alphabet.  Math.random() returns a    *)
(* number of tenths drawn from RandomSamples.  A Date is a number of       *)
(* hours since 2024-03-30T00:00Z, the first entry of DateStrings.          *)
(***************************************************************************)
EXTENDS Integers, Sequences, FiniteSets, TLC

VARIABLES
    request,                    \* the TripRequest handed to the engine
    tz,                         \* the time zone of the JavaScript runtime
    transportData,              \* this.transportData (route entries in key order)
    poisData,                   \* this.poisData (city -> Poi[])
    poiRotationIndex,           \* this.poiRotationIndex (city -> cursor)
    pc,                         \* "idle" | "running" | "done"
    day,                        \* the loop variable of generateRecommendation
    currentCity,
    remainingBudget,
    totalTravelTime,
    tripDays,
    visitedCities,
    visitedPois,
    consecutiveDaysInSameCity,
    flexibleTransportActivated,
    response,                   \* the TripResponse returned, NoResponse before
    errors,                     \* result of validateTripRequest, NotValidated before
    selection,                  \* result of one selectActivitiesForCity or
                                \* findCandidateCities call
    runs,                       \* calls of generateRecommendation on this engine
    cards,                      \* city -> the recommendation query of its card
    favorites,                  \* useFavorites: the favorites state
    favoritesStorage,           \* localStorage["travelai_favorites"]
    savedTrips,                 \* useSavedTrips: the savedTrips state
    savedTripsStorage,          \* localStorage["travelai_saved_trips"]
    hookCalls,                  \* calls made on useSavedTrips so far
    lastCall                    \* the latest call made on one of the two hooks

vars == <<request, tz, transportData, poisData, poiRotationIndex, pc, day,
          currentCity, remainingBudget, totalTravelTime, tripDays,
          visitedCities, visitedPois, consecutiveDaysInSameCity,
          flexibleTransportActivated, response, errors, selection, runs,
          cards, favorites, favoritesStorage, savedTrips, savedTripsStorage,
          hookCalls, lastCall>>

-----------------------------------------------------------------------------
(* Bounds of the model *)

\* the longest trip the requests of the model ask for
MaxDays == 5

\* the longest trip asked for from the city of four POIs
MaxStay == 3

\* the most POIs a city has in the single-call specification
MaxPois == 4

\* the largest rotation cursor a single call starts from
MaxCursor == 2

\* the most calls of generateRecommendation on one engine
MaxRuns == 2

\* the most times a recommendation query is fetched again after a failure
MaxRetries == 1

\* the length of the long trips, which have room for two stuck episodes
LongDays == 6

-----------------------------------------------------------------------------
(* Constants of the program *)

MIN_DAYS_FOR_FLEXIBILITY == 4
STICKY_CITY_THRESHOLD == 2
numActivitiesDesired == 3
ExplorationBonus == 50
DefaultBaseCost == 15
MinDuration == 1
MaxDuration == 30
MinBudget == 100

NoResponse == [none |-> TRUE]
NotValidated == <<"not validated">>
NoTransport == [none |-> TRUE]
Null == [none |-> TRUE]
NoSelection == <<>>
AllModes == {"flight", "train", "bus", "car"}

-----------------------------------------------------------------------------
(* Strings *)

\* String.prototype.toLowerCase on the alphabet of the model
ToLowerCase(s) ==
    CASE s = "Paris" -> "paris"
      [] s = "Rome" -> "rome"
      [] s = "Berlin" -> "berlin"
      [] s = "Oslo" -> "oslo"
      [] s = "Art" -> "art"
      [] s = "Food" -> "food"
      [] s = "Street Art" -> "street art"
      [] OTHER -> s

\* hay.includes(needle) on the (lower-case) alphabet of the model
Includes(hay, needle) ==
    \/ needle = ""
    \/ hay = needle
    \/ <<hay, needle>> \in {<<"street art", "art">>, <<"street art", "street">>,
                            <<"museums", "museum">>, <<"nightlife", "night">>}

-----------------------------------------------------------------------------
(* Arrays *)

Min(a, b) == IF a < b THEN a ELSE b

\* s.slice(0, n)
Take(s, n) == SubSeq(s, 1, Min(n, Len(s)))

\* Array.prototype.sort with a comparator (a, b) => key(a) - key(b), keys[i]
\* being the key of s[i]: ascending in the key, stable (equal keys keep
\* their order)
StableSort(s, keys) ==
    LET rank(i) == 1 + Cardinality({j \in 1..Len(s) :
                        \/ keys[j] < keys[i]
                        \/ keys[j] = keys[i] /\ j < i})
    IN  [k \in 1..Len(s) |-> s[CHOOSE i \in 1..Len(s) : rank(i) = k]]

Swap(s, i, j) == [s EXCEPT ![i] = s[j], ![j] = s[i]]

\* the values Math.random() takes in the model, in tenths
RandomSamples == {0, 9}

\* Math.floor(Math.random() * n) for each value of Math.random()
RandomIndex(n) == {(r * n) \div 10 : r \in RandomSamples}

\* for (i = length-1; i > 0; i--) { j = floor(random * (i+1)); swap(i, j) }
\* with p = i + 1 the 1-based position: the set of arrays the loop can leave
RECURSIVE ShuffleFrom(_, _)
ShuffleFrom(s, p) ==
    IF p <= 1 THEN {s}
    ELSE UNION {ShuffleFrom(Swap(s, p, j + 1), p - 1) : j \in RandomIndex(p)}

Shuffle(s) == ShuffleFrom(s, Len(s))


-----------------------------------------------------------------------------
(* Dates: new Date(str), setDate(getDate() + n), toISOString().split('T')[0] *)

\* the calendar days of the model, consecutive, as ISO date strings
DateStrings == <<"2024-03-30", "2024-03-31", "2024-04-01", "2024-04-02",
                 "2024-04-03", "2024-04-04", "2024-04-05", "2024-04-06">>

\* the runtime's zones: UTC, and a zone one hour east of UTC whose clocks go
\* forward one hour at 2024-03-31T01:00Z (hour 25 of the model)
TimeZones == {[name |-> "UTC", offset |-> 0, dst |-> FALSE, dstStart |-> 0],
              [name |-> "Europe/Berlin", offset |-> 1, dst |-> TRUE, dstStart |-> 25]}

\* new Date("YYYY-MM-DD"): a date-only string is midnight UTC of that day
NewDate(str) ==
    (CHOOSE i \in 1..Len(DateStrings) : DateStrings[i] = str) * 24 - 24

\* the zone's offset from UTC, in hours, at the instant u
OffsetAt(zone, u) == zone.offset + (IF zone.dst /\ u >= zone.dstStart THEN 1 ELSE 0)

\* the instant whose local time is l; a local time the clocks skip is read
\* with the offset in force before the change
LocalToUtc(zone, l) ==
    IF zone.dst /\ l - zone.offset - 1 >= zone.dstStart
    THEN l - zone.offset - 1
    ELSE l - zone.offset

\* d.setDate(d.getDate() + n): the local calendar day moves by n, the local
\* time of day stays
SetDatePlus(zone, u, n) == LocalToUtc(zone, u + OffsetAt(zone, u) + n * 24)

\* d.toISOString().split('T')[0]: the UTC calendar day of the instant
ToISODate(u) == DateStrings[(u \div 24) + 1]

\* lines 61-62 and 127: the date string of a day of the trip
DateOfDay(zone, departureDate, d) ==
    ToISODate(SetDatePlus(zone, NewDate(departureDate), d - 1))

-----------------------------------------------------------------------------
(* Cost estimator and time slots *)

\* baseCosts[category.toLowerCase()] || 15: a base of 0 is falsy as well
BaseCost(category) ==
    LET c == ToLowerCase(category)
        looked == CASE c = "museums" -> 15
                    [] c = "art" -> 12
                    [] c = "history" -> 10
                    [] c = "architecture" -> 5
                    [] c = "food" -> 25
                    [] c = "shopping" -> 0
                    [] c = "nature" -> 0
                    [] c = "nightlife" -> 30
                    [] c = "entertainment" -> 20
                    [] OTHER -> 0
    IN  IF looked = 0 THEN DefaultBaseCost ELSE looked

\* Math.floor(baseCost + Math.random() * 10 - 5), Math.random() = r / 10
estimateActivityCost(category, r) == BaseCost(category) + r - 5

\* generateTimeSlot(index), index 0-based
generateTimeSlot(index) ==
    LET timeSlots == <<[start |-> 9, end |-> 12], [start |-> 1, end |-> 3],
                       [start |-> 4, end |-> 6]>>
        slot == IF index + 1 \in DOMAIN timeSlots THEN timeSlots[index + 1]
                ELSE timeSlots[1]
        startPeriod == IF slot.start < 12 THEN "AM" ELSE "PM"
        endPeriod == IF slot.end < 12 THEN "AM" ELSE "PM"
    IN  <<slot.start, startPeriod, slot.end, endPeriod>>

-----------------------------------------------------------------------------
(* Candidate router and city scorer *)

\* this.poisData[city] || []
PoisOf(pois, city) == IF city \in DOMAIN pois THEN pois[city] ELSE <<>>

\* mutant: the cap is taken from the size of the budget, whatever its sign
OptionAllowed_CapOfMagnitude(option, transportPreference, budget) ==
    /\ option.mode \in transportPreference
    /\ 10 * option.cost <= 3 * (IF budget < 0 THEN 0 - budget ELSE budget)

\* mutant: the budget cap is left out of the filter
OptionAllowed_ModeOnly(option, transportPreference, budget) ==
    option.mode \in transportPreference

\* options.filter(o => transportPreference.includes(o.mode) &&
\*                     o.cost <= remainingBudget * 0.3)
\* costs and budgets are integers, so cost <= 0.3 * budget is 10 cost <= 3 budget
OptionAllowed(option, transportPreference, budget) ==
    /\ option.mode \in transportPreference
    /\ 10 * option.cost <= 3 * budget

\* mutant: an hour weighs as much as one unit of cost
TransportScore_Unweighted(option) == option.cost + option.durationHrs

\* lines 173-174: cost + durationHrs * 10
TransportScore(option) == option.cost + option.durationHrs * 10

\* validOptions.sort((a, b) => scoreA - scoreB), lines 172-176
SortByScore(options) ==
    StableSort(options, [i \in 1..Len(options) |-> TransportScore(options[i])])

\* mutant: the destination is looked up without lower-casing it
NotVisited_CaseSensitive(to, visited) == to \notin visited

\* line 165: !visitedCities.has(to.toLowerCase())
NotVisited(to, visited) == ToLowerCase(to) \notin visited

\* findCandidateCities: one entry per route out of currentCity to a city not
\* visited that keeps an allowed option, in the order of the route keys
findCandidateCities(routes, city, visited, transportPreference, budget) ==
    LET entry(route) ==
            LET validOptions == SelectSeq(route.options,
                    LAMBDA o : OptionAllowed(o, transportPreference, budget))
            IN  IF /\ ToLowerCase(route.from) = city
                   /\ NotVisited(route.to, visited)
                   /\ Len(validOptions) > 0
                THEN <<[city |-> ToLowerCase(route.to),
                        transport |-> SortByScore(validOptions)[1]]>>
                ELSE <<>>
        RECURSIVE collect(_)
        collect(i) == IF i > Len(routes) THEN <<>>
                      ELSE entry(routes[i]) \o collect(i + 1)
    IN  collect(1)

\* the score scoreCities gives one candidate
CityScore(pois, candidate, interests) ==
    LET cityPois == PoisOf(pois, candidate.city)
        RECURSIVE sum(_)
        sum(i) == IF i > Len(cityPois) THEN 0
                  ELSE (IF ToLowerCase(cityPois[i].category) \in interests
                        THEN (IF cityPois[i].popularityScore = 0 THEN 1
                              ELSE cityPois[i].popularityScore)
                        ELSE 0) + sum(i + 1)
    IN  sum(1) + ExplorationBonus

\* mutant: a later candidate of the same score replaces the best one
Better_OrEqual(score, bestScore) == score >= bestScore

\* line 204: score > bestScore
Better(score, bestScore) == score > bestScore

\* scoreCities: the first candidate of the highest score (bestScore starts
\* at -Infinity, so the first candidate always replaces null); Null for an
\* empty list
scoreCities(pois, candidateCities, interests) ==
    LET RECURSIVE scan(_, _, _)
        scan(i, bestScore, bestCity) ==
            IF i > Len(candidateCities) THEN bestCity
            ELSE LET score == CityScore(pois, candidateCities[i], interests)
                 IN  IF bestCity = Null \/ Better(score, bestScore)
                     THEN scan(i + 1, score, candidateCities[i])
                     ELSE scan(i + 1, bestScore, bestCity)
    IN  scan(1, 0, Null)

-----------------------------------------------------------------------------
(* Activity selector *)

Ids(sel) == {sel[i].id : i \in 1..Len(sel)}

\* .sort((a, b) => (b.popularityScore || 0) - (a.popularityScore || 0)):
\* descending popularity
SortByPopularity(pois) ==
    StableSort(pois, [i \in 1..Len(pois) |-> 0 - pois[i].popularityScore])

\* interests.some(i => poi.category.toLowerCase().includes(i.toLowerCase()))
MatchesInterest(poi, interests) ==
    \E interest \in interests :
        Includes(ToLowerCase(poi.category), ToLowerCase(interest))

\* mutant: the matching POIs are taken in catalog order
InterestPhase_Unsorted(cityPois, interests, visited) ==
    Take(SelectSeq(cityPois,
            LAMBDA poi : MatchesInterest(poi, interests) /\ poi.id \notin visited),
         numActivitiesDesired)

\* Phase 1 (lines 227-238): interest-matching, unvisited, by popularity
InterestPhase(cityPois, interests, visited) ==
    Take(SortByPopularity(SelectSeq(cityPois,
            LAMBDA poi : MatchesInterest(poi, interests) /\ poi.id \notin visited)),
         numActivitiesDesired)

\* mutant: the fillers are drawn from visited POIs as well
PopularityPhase_AnyPoi(cityPois, visited, selected) ==
    IF Len(selected) < numActivitiesDesired
    THEN LET generalPopularPois == SortByPopularity(SelectSeq(cityPois,
                    LAMBDA poi : poi.id \notin Ids(selected)))
         IN  {selected \o Take(g, numActivitiesDesired - Len(selected)) :
                    g \in Shuffle(generalPopularPois)}
    ELSE {selected}

\* Phase 2 (lines 240-261): unvisited and not yet picked, sorted, shuffled,
\* then as many as are still needed; one result per outcome of the shuffle
PopularityPhase(cityPois, visited, selected) ==
    IF Len(selected) < numActivitiesDesired
    THEN LET generalPopularPois == SortByPopularity(SelectSeq(cityPois,
                    LAMBDA poi : poi.id \notin visited /\ poi.id \notin Ids(selected)))
         IN  {selected \o Take(g, numActivitiesDesired - Len(selected)) :
                    g \in Shuffle(generalPopularPois)}
    ELSE {selected}

\* this.poiRotationIndex[city], undefined read as 0
CursorOf(rotation, city) == IF city \in DOMAIN rotation THEN rotation[city] ELSE 0

\* rotation with rotation[city] = v
SetCursor(rotation, city, v) ==
    [c \in DOMAIN rotation \cup {city} |-> IF c = city THEN v ELSE rotation[c]]

\* line 278: the cursor after a rotation over `remaining`
BumpCursor(cursor, remaining) == (cursor + numActivitiesDesired) % Len(remaining)

\* mutant: the rotation runs over every POI of the city
RotationRemaining_All(cityPois, selected) == cityPois

\* lines 268-269: the POIs of the city not picked in this call
RotationRemaining(cityPois, selected) ==
    SelectSeq(cityPois, LAMBDA poi : poi.id \notin Ids(selected))

\* mutant: the rotation phase is missing
RotationPhase_Skipped(cityPois, city, selected, rotation) ==
    [selected |-> selected, rotation |-> rotation]

\* Phase 3 (lines 263-280): rotate through all POIs of the city not picked in
\* this call, from the city's cursor; gives the selection and the cursors
RotationPhase(cityPois, city, selected, rotation) ==
    IF Len(selected) < numActivitiesDesired
    THEN LET rot0 == SetCursor(rotation, city, CursorOf(rotation, city))
             remaining == RotationRemaining(cityPois, selected)
         IN  IF Len(remaining) > 0
             THEN LET start == rot0[city] % Len(remaining)
                      n == Min(Len(remaining), numActivitiesDesired - Len(selected))
                      picked == [i \in 1..n |->
                                    remaining[((start + i - 1) % Len(remaining)) + 1]]
                  IN  [selected |-> selected \o picked,
                       rotation |-> SetCursor(rot0, city, BumpCursor(rot0[city], remaining))]
             ELSE [selected |-> selected, rotation |-> rot0]
    ELSE [selected |-> selected, rotation |-> rotation]

\* lines 288-291: slice(0, 3) and a cost for each POI, one Math.random() each
WithCosts(selected) ==
    LET s == Take(selected, numActivitiesDesired)
    IN  {[i \in 1..Len(s) |->
            [id |-> s[i].id, category |-> s[i].category,
             popularityScore |-> s[i].popularityScore,
             cost |-> estimateActivityCost(s[i].category, r[i])]] :
         r \in [1..Len(s) -> RandomSamples]}

\* selectActivitiesForCity: every outcome the random draws allow, each the
\* activities returned and this.poiRotationIndex afterwards
selectActivitiesForCity(pois, rotation, city, interests, visited) ==
    LET cityPois == PoisOf(pois, city)
        phase1 == InterestPhase(cityPois, interests, visited)
    IN  UNION {
          LET phase3 == RotationPhase(cityPois, city, phase2, rotation)
          IN  UNION {{[activities |-> a, rotation |-> phase3.rotation] :
                        a \in WithCosts(shuffled)} :
                     shuffled \in Shuffle(phase3.selected)} :
          phase2 \in PopularityPhase(cityPois, visited, phase1)}

-----------------------------------------------------------------------------
(* The catalog and the requests of the model *)

Poi(id, category, popularityScore) ==
    [id |-> id, category |-> category, popularityScore |-> popularityScore]

Option(mode, durationHrs, cost) ==
    [mode |-> mode, durationHrs |-> durationHrs, cost |-> cost]

Route(from, to, options) == [from |-> from, to |-> to, options |-> options]

\* transport table: the entries of the route object in key order, each
\* "From→To" key split at the arrow
CatalogTransport ==
    <<Route("Paris", "Rome", <<Option("train", 3, 20), Option("bus", 9, 12),
                               Option("flight", 1, 15)>>),
      Route("Paris", "Oslo", <<Option("bus", 4, 10)>>),
      Route("Oslo", "Berlin", <<Option("flight", 1, 30), Option("bus", 8, 9)>>),
      Route("Berlin", "Rome", <<Option("car", 5, 8)>>),
      Route("berlin", "Oslo", <<Option("train", 1, 5)>>),
      Route("Rome", "Oslo", <<Option("train", 2, 6)>>),
      Route("rome", "Berlin", <<Option("train", 2, 14), Option("car", 3, 40)>>)>>

\* POI table, keyed by lower-case city; oslo has no entry
CatalogPois ==
    [c \in {"paris", "rome", "berlin"} |->
        CASE c = "paris" -> <<Poi("p1", "nature", 2), Poi("p2", "art", 9),
                              Poi("p3", "Art", 8), Poi("p4", "museums", 7)>>
          [] c = "rome" -> <<Poi("r1", "food", 5), Poi("r2", "street art", 0)>>
          [] c = "berlin" -> <<Poi("b1", "nightlife", 6)>>]

\* requests for trips that start in the small cities, up to MaxDays long
NetworkRequests ==
    [origin : {"Oslo", "rome"}, durationDays : 1..MaxDays, maxBudget : {100, 300},
     transportPreference : {{"train"}, {"car"}},
     interests : {{"art"}, {"Food", "nightlife"}},
     departureDate : {DateStrings[1]}]

\* requests for trips that start in the city of four POIs, up to MaxStay long
StayRequests ==
    [origin : {"Paris"}, durationDays : 1..MaxStay, maxBudget : {100},
     transportPreference : {{"train"}},
     interests : {{"art"}},
     departureDate : {DateStrings[1]}]

Requests == NetworkRequests \cup StayRequests

-----------------------------------------------------------------------------
(* The engine *)

\* the variables of generateRecommendation before it is called
EngineIdle ==
    /\ pc = "idle"
    /\ day = 0
    /\ currentCity = ""
    /\ remainingBudget = 0
    /\ totalTravelTime = 0
    /\ tripDays = <<>>
    /\ visitedCities = {}
    /\ visitedPois = {}
    /\ consecutiveDaysInSameCity = 0
    /\ flexibleTransportActivated = FALSE
    /\ response = NoResponse


\* localStorage.getItem of a key that was never set
NoItem == [none |-> TRUE]

\* no call has been made on a hook
NoCall == [op |-> "none", args |-> <<>>, wasFavorite |-> FALSE, returned |-> Null]

\* both hooks before any call, in a browser with an empty localStorage
HooksInit ==
    /\ favorites = <<>>
    /\ favoritesStorage = NoItem
    /\ savedTrips = <<>>
    /\ savedTripsStorage = NoItem
    /\ hookCalls = 0
    /\ lastCall = NoCall

\* a freshly constructed engine over the catalog, and a request for it
Init ==
    /\ request \in Requests
    /\ tz \in TimeZones
    /\ transportData = CatalogTransport
    /\ poisData = CatalogPois
    /\ poiRotationIndex = <<>>
    /\ EngineIdle
    /\ errors = NotValidated
    /\ selection = NoSelection
    /\ runs = 0
    /\ cards = <<>>
    /\ HooksInit

\* mutant: the cursors of the previous run are kept
ResetRotation_Kept(rotation) == rotation

\* line 58: this.poiRotationIndex = {}
ResetRotation(rotation) == <<>>

\* mutant: the origin is not marked visited
StartVisited_Empty(origin) == {}

\* line 48: new Set<string>([currentCity]), currentCity the lower-cased origin
StartVisited(origin) == {ToLowerCase(origin)}

\* lines 42-58: the locals of generateRecommendation and the cursor reset
StartRun(req) ==
    /\ pc' = "running"
    /\ day' = 1
    /\ currentCity' = ToLowerCase(req.origin)
    /\ remainingBudget' = req.maxBudget
    /\ totalTravelTime' = 0
    /\ tripDays' = <<>>
    /\ visitedCities' = StartVisited(req.origin)
    /\ visitedPois' = {}
    /\ consecutiveDaysInSameCity' = 0
    /\ flexibleTransportActivated' = FALSE
    /\ poiRotationIndex' = ResetRotation(poiRotationIndex)
    /\ runs' = runs + 1

\* the first call of generateRecommendation on the engine
Generate_Start ==
    /\ pc = "idle"
    /\ StartRun(request)
    /\ UNCHANGED <<request, tz, transportData, poisData, response, errors, selection,
                   cards,
                   favorites, favoritesStorage, savedTrips,
                   savedTripsStorage, hookCalls, lastCall>>

\* mutant: the loop also stops once the budget is used up
LoopCondition_StopsWhenBroke(d, durationDays) ==
    d <= durationDays /\ remainingBudget > 0

\* line 60: day <= durationDays
LoopCondition(d, durationDays) == d <= durationDays

\* mutant: the length of the trip is not looked at
FlexibleToday_AnyLength(durationDays, consecutive, activated) ==
    /\ consecutive >= STICKY_CITY_THRESHOLD
    /\ ~activated

\* lines 70-74: the mode filter is widened today
FlexibleToday(durationDays, consecutive, activated) ==
    /\ durationDays >= MIN_DAYS_FOR_FLEXIBILITY
    /\ consecutive >= STICKY_CITY_THRESHOLD
    /\ ~activated

\* mutant: the flag is cleared on the day after the widened one
FlexibleReset_NextDay(activated, nextCity, city) == activated

\* line 85: flexibleTransportActivated && nextCity !== currentCity
FlexibleReset(activated, nextCity, city) == activated /\ nextCity # city

\* mutant: a relocation is looked for on day 1 as well
MayRelocate_FromDayOne(d) == d >= 1

\* line 90: a relocation is looked for
MayRelocate(d) == d > 1

\* lines 104 and 122: remainingBudget -= cost
BudgetAfter(budget, cost) == budget - cost

\* mutant: the difference taken the wrong way round
TotalCost_SignSlip(maxBudget, budget) == budget - maxBudget

\* line 148: totalCost
TotalCost(maxBudget, budget) == maxBudget - budget

\* activities.reduce((sum, a) => sum + (a.cost || 0), 0)
RECURSIVE SumCosts(_)
SumCosts(activities) ==
    IF activities = <<>> THEN 0
    ELSE Head(activities).cost + SumCosts(Tail(activities))

\* lines 124-141: the TripDay pushed for a day (name and duration, which are
\* copied from the POI, are left out)
MakeTripDay(d, city, date, from, transport, activities, dailyCost) ==
    [day |-> d,
     city |-> city,
     date |-> date,
     transport |-> IF transport # NoTransport
                   THEN [from |-> from, to |-> city, option |-> transport]
                   ELSE NoTransport,
     activities |-> [i \in 1..Len(activities) |->
                        [id |-> activities[i].id,
                         category |-> activities[i].category,
                         time |-> generateTimeSlot(i - 1)]],
     dailyCost |-> dailyCost]

\* mutant: the sort of line 172 is applied to the route's own option array
OptionsAfterSort_InPlace(options, validOptions) == SortByScore(options)

\* lines 166-176: the option array of a route after validOptions.sort(...);
\* validOptions is the new array options.filter(...) returned, so the sort
\* reorders that array and the route's own array stays as it was
OptionsAfterSort(options, validOptions) == options

\* this.transportData after findCandidateCities(city, visited, ...)
TransportAfterRouting(routes, city, visited, transportPreference, budget) ==
    [i \in 1..Len(routes) |->
        LET validOptions == SelectSeq(routes[i].options,
                LAMBDA o : OptionAllowed(o, transportPreference, budget))
        IN  IF /\ ToLowerCase(routes[i].from) = city
               /\ NotVisited(routes[i].to, visited)
               /\ Len(validOptions) > 0
            THEN [routes[i] EXCEPT !.options = OptionsAfterSort(@, validOptions)]
            ELSE routes[i]]

\* this.poisData after selectActivitiesForCity(city, ...): the sorts and the
\* shuffles of lines 228-251 and 283-286 work on arrays made by filter or on
\* selectedActivities, and line 288 copies each POI before adding its cost,
\* so the list of the city and its POIs stay as they were; reading a city
\* that has no list (|| []) adds none
PoisAfterSelection(pois, city) ==
    IF city \in DOMAIN pois THEN [pois EXCEPT ![city] = PoisOf(pois, city)]
    ELSE pois

\* mutant: the leg is left out of the cost of the day
DailyTotalCost_ActivitiesOnly(dailyActivityCost, dailyTransportCost) ==
    dailyActivityCost

\* line 121: dailyTotalCost
DailyTotalCost(dailyActivityCost, dailyTransportCost) ==
    dailyActivityCost + dailyTransportCost

\* mutant: the day's activities are not marked visited
MarkVisited_Forgets(visited, activities) == visited

\* line 118: activities.forEach(activity => visitedPois.add(activity.id))
MarkVisited(visited, activities) == visited \cup Ids(activities)

\* one iteration of the day loop, lines 61-143
Generate_Day ==
    /\ pc = "running"
    /\ LoopCondition(day, request.durationDays)
    /\ LET date == DateOfDay(tz, request.departureDate, day)
           nextCity0 == currentCity
           flexible == FlexibleToday(request.durationDays,
                            consecutiveDaysInSameCity, flexibleTransportActivated)
           reset == ~flexible /\ FlexibleReset(flexibleTransportActivated,
                                               nextCity0, currentCity)
           currentTransportPreference ==
                IF flexible THEN AllModes ELSE request.transportPreference
           activated1 == IF flexible THEN TRUE
                         ELSE IF reset THEN FALSE ELSE flexibleTransportActivated
           consecutive1 == IF reset THEN 0 ELSE consecutiveDaysInSameCity
           candidateCities ==
                IF MayRelocate(day)
                THEN findCandidateCities(transportData, currentCity, visitedCities,
                                         currentTransportPreference, remainingBudget)
                ELSE <<>>
           bestCity == scoreCities(poisData, candidateCities, request.interests)
           moved == Len(candidateCities) > 0 /\ bestCity # Null
           nextCity == IF moved THEN bestCity.city ELSE nextCity0
           transport == IF moved THEN bestCity.transport ELSE NoTransport
           dailyTransportCost == IF moved THEN transport.cost ELSE 0
           budget1 == IF moved THEN BudgetAfter(remainingBudget, dailyTransportCost)
                      ELSE remainingBudget
       IN  \E out \in selectActivitiesForCity(poisData, poiRotationIndex, nextCity,
                                              request.interests, visitedPois) :
             LET activities == out.activities
                 dailyActivityCost == SumCosts(activities)
             IN  /\ totalTravelTime' = totalTravelTime +
                                        (IF moved THEN transport.durationHrs ELSE 0)
                 /\ visitedCities' = IF moved THEN visitedCities \cup {nextCity}
                                     ELSE visitedCities
                 /\ consecutiveDaysInSameCity' =
                        IF nextCity = currentCity THEN consecutive1 + 1 ELSE 0
                 /\ flexibleTransportActivated' = activated1
                 /\ poiRotationIndex' = out.rotation
                 /\ visitedPois' = MarkVisited(visitedPois, activities)
                 /\ remainingBudget' = BudgetAfter(budget1, dailyActivityCost)
                 /\ tripDays' = Append(tripDays,
                        MakeTripDay(day, nextCity, date, currentCity, transport,
                                    activities,
                                    DailyTotalCost(dailyActivityCost, dailyTransportCost)))
                 /\ currentCity' = nextCity
                 /\ day' = day + 1
                 /\ transportData' =
                        IF MayRelocate(day)
                        THEN TransportAfterRouting(transportData, currentCity,
                                visitedCities, currentTransportPreference,
                                remainingBudget)
                        ELSE transportData
                 /\ poisData' = PoisAfterSelection(poisData, nextCity)
    /\ UNCHANGED <<request, tz, pc, response, errors, selection, runs, cards,
                   favorites, favoritesStorage, savedTrips,
                   savedTripsStorage, hookCalls, lastCall>>

\* lines 146-151: the loop is over, the response is returned
Generate_Return ==
    /\ pc = "running"
    /\ ~LoopCondition(day, request.durationDays)
    /\ pc' = "done"
    /\ response' = [tripDays |-> tripDays,
                    totalCost |-> TotalCost(request.maxBudget, remainingBudget),
                    totalTravelTime |-> totalTravelTime,
                    remainingBudget |-> remainingBudget]
    /\ UNCHANGED <<request, tz, transportData, poisData, poiRotationIndex, day,
                   currentCity, remainingBudget, totalTravelTime, tripDays,
                   visitedCities, visitedPois, consecutiveDaysInSameCity,
                   flexibleTransportActivated, errors, selection, runs, cards,
                   favorites, favoritesStorage, savedTrips,
                   savedTripsStorage, hookCalls, lastCall>>

Next == Generate_Start \/ Generate_Day \/ Generate_Return

Spec == Init /\ [][Next]_vars

-----------------------------------------------------------------------------
(* Long trips *)

\* requests for trips of LongDays days through the small cities
LongRequests ==
    [origin : {"Oslo", "rome"}, durationDays : {LongDays}, maxBudget : {100, 300},
     transportPreference : {{"train"}, {"car"}},
     interests : {{"art"}},
     departureDate : {DateStrings[1]}]

InitLong ==
    /\ request \in LongRequests
    /\ tz = CHOOSE z \in TimeZones : z.name = "UTC"
    /\ transportData = CatalogTransport
    /\ poisData = CatalogPois
    /\ poiRotationIndex = <<>>
    /\ EngineIdle
    /\ errors = NotValidated
    /\ selection = NoSelection
    /\ runs = 0
    /\ cards = <<>>
    /\ HooksInit

SpecLong == InitLong /\ [][Next]_vars

-----------------------------------------------------------------------------
(* Several calls of generateRecommendation on one engine *)

\* the requests of the repeated calls: a stay in the city of four POIs, which
\* leaves a cursor behind, and a trip through the small cities
RerunRequests ==
    [origin : {"Paris"}, durationDays : {2}, maxBudget : {100},
     transportPreference : {{"train"}}, interests : {{"art"}},
     departureDate : {DateStrings[1]}]
    \cup [origin : {"Oslo", "rome"}, durationDays : {MIN_DAYS_FOR_FLEXIBILITY},
          maxBudget : {100}, transportPreference : {{"train"}},
          interests : {{"Food", "nightlife"}}, departureDate : {DateStrings[1]}]

InitRerun ==
    /\ request \in RerunRequests
    /\ tz = CHOOSE z \in TimeZones : z.name = "UTC"
    /\ transportData = CatalogTransport
    /\ poisData = CatalogPois
    /\ poiRotationIndex = <<>>
    /\ EngineIdle
    /\ errors = NotValidated
    /\ selection = NoSelection
    /\ runs = 0
    /\ cards = <<>>
    /\ HooksInit

\* a further call of generateRecommendation on the same engine, with a new
\* request, once the previous call has returned
Generate_Again ==
    /\ pc = "done"
    /\ runs < MaxRuns
    /\ \E req \in RerunRequests :
          /\ request' = req
          /\ StartRun(req)
    /\ response' = NoResponse
    /\ UNCHANGED <<tz, transportData, poisData, errors, selection, cards,
                   favorites, favoritesStorage, savedTrips,
                   savedTripsStorage, hookCalls, lastCall>>

NextRerun == Generate_Start \/ Generate_Day \/ Generate_Return \/ Generate_Again

SpecRerun == InitRerun /\ [][NextRerun]_vars

-----------------------------------------------------------------------------
(* The city recommendations: POST /api/city-recommendations (server/routes.ts),
   getCityRecommendations (server/openai.ts), the useCityRecommendations
   query and the CityRecommendationCard that shows it.  One card is rendered
   per day of the itinerary; cards of the same city have the same queryKey
   and share one query, so the queries are kept per city. *)

\* the cityName props of the cards rendered for the itinerary
CardCities ==
    IF response = NoResponse THEN {}
    ELSE {response.tripDays[i].city : i \in 1..Len(response.tripDays)}

\* a query whose first fetch is in flight
NewQuery == [phase |-> "fetching", llm |-> "none", status |-> 0, failureCount |-> 0]

\* Response.ok of fetch
IsOk(status) == status >= 200 /\ status <= 299

\* mutant: the route answers an LLM failure like a success
HandleStatus_AlwaysOk(llmOk) == 200

\* routes.ts lines 94-114: res.json(recommendations) when
\* getCityRecommendations returns, res.status(400) when it throws
HandleStatus(llmOk) == IF llmOk THEN 200 ELSE 400

\* CityRecommendationCard lines 39-83: what the card renders for its query
CardView(query) ==
    CASE query.phase \in {"fetching", "responded"} -> "skeleton"
      [] query.phase = "error" -> "unavailable"
      [] query.phase = "success" -> "guide"

\* a trip through three cities and a trip through two
RecommendationRequests ==
    [origin : {"rome"}, durationDays : {3}, maxBudget : {100},
     transportPreference : {{"train"}}, interests : {{"Food", "nightlife"}},
     departureDate : {DateStrings[1]}]
    \cup [origin : {"Oslo"}, durationDays : {MIN_DAYS_FOR_FLEXIBILITY},
          maxBudget : {100}, transportPreference : {{"train"}},
          interests : {{"art"}}, departureDate : {DateStrings[1]}]

InitRecommend ==
    /\ request \in RecommendationRequests
    /\ tz = CHOOSE z \in TimeZones : z.name = "UTC"
    /\ transportData = CatalogTransport
    /\ poisData = CatalogPois
    /\ poiRotationIndex = <<>>
    /\ EngineIdle
    /\ errors = NotValidated
    /\ selection = NoSelection
    /\ runs = 0
    /\ cards = <<>>
    /\ HooksInit

EngineUnchanged ==
    UNCHANGED <<request, tz, transportData, poisData, poiRotationIndex, pc, day,
                currentCity, remainingBudget, totalTravelTime, tripDays,
                visitedCities, visitedPois, consecutiveDaysInSameCity,
                flexibleTransportActivated, response, errors, selection, runs,
                favorites, favoritesStorage, savedTrips,
                savedTripsStorage, hookCalls, lastCall>>

\* a card of a city not queried yet is rendered: useQuery starts the fetch
Card_Mount ==
    /\ pc = "done"
    /\ \E city \in CardCities \ DOMAIN cards :
          cards' = [c \in DOMAIN cards \cup {city} |->
                        IF c = city THEN NewQuery ELSE cards[c]]
    /\ EngineUnchanged

\* the route handler serves the request of one city; the LLM call inside
\* getCityRecommendations returns or throws
Recommend_Handle ==
    /\ \E city \in DOMAIN cards, llmOk \in BOOLEAN :
          /\ cards[city].phase = "fetching"
          /\ cards' = [cards EXCEPT ![city] =
                          [@ EXCEPT !.phase = "responded",
                                    !.llm = IF llmOk THEN "ok" ELSE "failed",
                                    !.status = HandleStatus(llmOk)]]
    /\ EngineUnchanged

\* queryFn gets the response: data when response.ok, else it throws and the
\* query fetches again or settles in error, as its retry option says
Query_Settle ==
    /\ \E city \in DOMAIN cards :
          /\ cards[city].phase = "responded"
          /\ IF IsOk(cards[city].status)
             THEN cards' = [cards EXCEPT ![city].phase = "success"]
             ELSE \/ /\ cards[city].failureCount < MaxRetries
                     /\ cards' = [cards EXCEPT ![city] =
                            [phase |-> "fetching", llm |-> "none", status |-> 0,
                             failureCount |-> @.failureCount + 1]]
                  \/ cards' = [cards EXCEPT ![city].phase = "error"]
    /\ EngineUnchanged

NextRecommend ==
    \/ Generate_Start \/ Generate_Day \/ Generate_Return
    \/ Card_Mount \/ Recommend_Handle \/ Query_Settle

SpecRecommend == InitRecommend /\ [][NextRecommend]_vars

-----------------------------------------------------------------------------
(* The request validator, lines 327-355 *)

OriginMessage == "Origin city is required"
DurationMessage == "Duration must be between 1 and 30 days"
BudgetMessage == "Budget must be at least 100"
TransportMessage == "At least one transport option must be selected"
InterestMessage == "At least one interest must be selected"
DateMessage == "Departure date is required"

\* mutant: the lower limit is off by one
DurationOutOfRange_OffByOne(d) == d <= MinDuration \/ d > MaxDuration

\* line 334: request.durationDays < 1 || request.durationDays > 30
DurationOutOfRange(d) == d < MinDuration \/ d > MaxDuration

\* validateTripRequest: the messages pushed, in order
validateTripRequest(req) ==
    (IF req.origin = "" THEN <<OriginMessage>> ELSE <<>>)
    \o (IF DurationOutOfRange(req.durationDays) THEN <<DurationMessage>> ELSE <<>>)
    \o (IF req.maxBudget < MinBudget THEN <<BudgetMessage>> ELSE <<>>)
    \o (IF Cardinality(req.transportPreference) = 0 THEN <<TransportMessage>> ELSE <<>>)
    \o (IF Cardinality(req.interests) = 0 THEN <<InterestMessage>> ELSE <<>>)
    \o (IF req.departureDate = "" THEN <<DateMessage>> ELSE <<>>)

\* requests as a form can send them, well-formed or not
ValidatorRequests ==
    [origin : {"", "Paris"},
     durationDays : {MinDuration - 1, MinDuration, MaxDuration, MaxDuration + 1},
     maxBudget : {MinBudget - 1, MinBudget},
     transportPreference : {{}, {"train"}},
     interests : {{}, {"art"}},
     departureDate : {"", DateStrings[1]}]

InitValidate ==
    /\ request \in ValidatorRequests
    /\ tz \in TimeZones
    /\ transportData = CatalogTransport
    /\ poisData = CatalogPois
    /\ poiRotationIndex = <<>>
    /\ EngineIdle
    /\ errors = NotValidated
    /\ selection = NoSelection
    /\ runs = 0
    /\ cards = <<>>
    /\ HooksInit

\* one call of the static validateTripRequest on the request
Validate ==
    /\ errors = NotValidated
    /\ errors' = validateTripRequest(request)
    /\ UNCHANGED <<request, tz, transportData, poisData, poiRotationIndex, pc, day,
                   currentCity, remainingBudget, totalTravelTime, tripDays,
                   visitedCities, visitedPois, consecutiveDaysInSameCity,
                   flexibleTransportActivated, response, selection, runs, cards,
                   favorites, favoritesStorage, savedTrips,
                   savedTripsStorage, hookCalls, lastCall>>

NextValidate == Validate

SpecValidate == InitValidate /\ [][NextValidate]_vars

-----------------------------------------------------------------------------
(* One call of selectActivitiesForCity on arbitrary inputs *)

\* the city of the call
SelectCity == "paris"

\* POIs with pairwise distinct ids, in the order the catalogs below list them
PoiPool ==
    <<Poi("a1", "art", 9), Poi("n1", "nature", 9), Poi("a2", "Art", 5),
      Poi("s1", "street art", 0), Poi("n2", "nature", 5), Poi("f1", "food", 7)>>

Reverse(s) == [i \in 1..Len(s) |-> s[Len(s) + 1 - i]]

\* the subsequence of s at the positions in keep
RECURSIVE SubSequence(_, _)
SubSequence(s, keep) ==
    IF s = <<>> THEN <<>>
    ELSE (IF Len(s) \in keep THEN SubSequence(SubSeq(s, 1, Len(s) - 1), keep)
                                     \o <<s[Len(s)]>>
          ELSE SubSequence(SubSeq(s, 1, Len(s) - 1), keep))

\* POI lists of a city: the sublists of the first MaxPois pool entries, in
\* pool order and in reverse order
CityCatalogs ==
    LET pool == SubSeq(PoiPool, 1, MaxPois)
    IN  {SubSequence(pool, keep) : keep \in SUBSET (1..MaxPois)}
        \cup {Reverse(SubSequence(pool, keep)) : keep \in SUBSET (1..MaxPois)}

InitSelect ==
    /\ request \in [origin : {"Paris"}, durationDays : {1}, maxBudget : {MinBudget},
                    transportPreference : {{"train"}},
                    interests : {{"art"}, {"Food", "nightlife"}, {"art", "nature"}},
                    departureDate : {DateStrings[1]}]
    /\ tz = CHOOSE z \in TimeZones : z.name = "UTC"
    /\ transportData = CatalogTransport
    /\ \E cityPois \in CityCatalogs :
          \/ poisData = [c \in {SelectCity} |-> cityPois]
          \/ cityPois = <<>> /\ poisData = <<>>
    /\ visitedPois \in SUBSET Ids(SubSeq(PoiPool, 1, MaxPois))
    /\ \/ poiRotationIndex = <<>>
       \/ \E cursor \in 0..MaxCursor : poiRotationIndex = [c \in {SelectCity} |-> cursor]
    /\ pc = "idle"
    /\ day = 0
    /\ currentCity = SelectCity
    /\ remainingBudget = 0
    /\ totalTravelTime = 0
    /\ tripDays = <<>>
    /\ visitedCities = {SelectCity}
    /\ consecutiveDaysInSameCity = 0
    /\ flexibleTransportActivated = FALSE
    /\ response = NoResponse
    /\ errors = NotValidated
    /\ selection = NoSelection
    /\ runs = 0
    /\ cards = <<>>
    /\ HooksInit

\* line 117: this.selectActivitiesForCity(city, interests, budget, visitedPois, day)
Select_Call ==
    /\ pc = "idle"
    /\ \E out \in selectActivitiesForCity(poisData, poiRotationIndex, SelectCity,
                                          request.interests, visitedPois) :
          /\ selection' = out.activities
          /\ poiRotationIndex' = out.rotation
    /\ pc' = "done"
    /\ UNCHANGED <<request, tz, transportData, poisData, day, currentCity,
                   remainingBudget, totalTravelTime, tripDays, visitedCities,
                   visitedPois, consecutiveDaysInSameCity,
                   flexibleTransportActivated, response, errors, runs, cards,
                   favorites, favoritesStorage, savedTrips,
                   savedTripsStorage, hookCalls, lastCall>>

NextSelect == Select_Call

SpecSelect == InitSelect /\ [][NextSelect]_vars

-----------------------------------------------------------------------------
(* One call of findCandidateCities on arbitrary inputs *)

\* a transport table with options of equal weighted score on one route
\* (car, flight and train from Oslo to Berlin all weigh 40)
TieTransport ==
    <<Route("Oslo", "Berlin", <<Option("bus", 8, 9), Option("car", 2, 20),
                                Option("flight", 1, 30), Option("train", 3, 10)>>),
      Route("oslo", "Rome", <<Option("train", 2, 50), Option("car", 9, 6)>>),
      Route("Oslo", "paris", <<Option("flight", 2, 31)>>),
      Route("Rome", "Oslo", <<Option("train", 2, 6)>>),
      Route("Berlin", "Oslo", <<Option("bus", 3, 10), Option("train", 2, 20)>>)>>

\* the cities of the tables
RouteCities == {"paris", "rome", "berlin", "oslo"}

InitRoute ==
    /\ request \in [origin : {"Oslo"}, durationDays : {MIN_DAYS_FOR_FLEXIBILITY},
                    maxBudget : {300},
                    transportPreference : {{"train"}, {"car"}, {"bus", "flight"},
                                           AllModes},
                    interests : {{"art"}},
                    departureDate : {DateStrings[1]}]
    /\ tz = CHOOSE z \in TimeZones : z.name = "UTC"
    /\ transportData \in {CatalogTransport, TieTransport}
    /\ poisData = CatalogPois
    /\ poiRotationIndex = <<>>
    /\ pc = "idle"
    /\ day = 2
    /\ currentCity \in RouteCities
    /\ visitedCities \in {v \in SUBSET RouteCities : currentCity \in v}
    /\ remainingBudget \in {0, 33, 100, 101, 300}
    /\ totalTravelTime = 0
    /\ tripDays = <<>>
    /\ visitedPois = {}
    /\ consecutiveDaysInSameCity = 0
    /\ flexibleTransportActivated = FALSE
    /\ response = NoResponse
    /\ errors = NotValidated
    /\ selection = NoSelection
    /\ runs = 0
    /\ cards = <<>>
    /\ HooksInit

\* lines 91-96: this.findCandidateCities(currentCity, visitedCities,
\* currentTransportPreference, remainingBudget)
Route_Call ==
    /\ pc = "idle"
    /\ selection' = findCandidateCities(transportData, currentCity, visitedCities,
                        request.transportPreference, remainingBudget)
    /\ pc' = "done"
    /\ UNCHANGED <<request, tz, transportData, poisData, poiRotationIndex, day,
                   currentCity, remainingBudget, totalTravelTime, tripDays,
                   visitedCities, visitedPois, consecutiveDaysInSameCity,
                   flexibleTransportActivated, response, errors, runs, cards,
                   favorites, favoritesStorage, savedTrips,
                   savedTripsStorage, hookCalls, lastCall>>

NextRoute == Route_Call

SpecRoute == InitRoute /\ [][NextRoute]_vars

-----------------------------------------------------------------------------
(* Properties *)

\* the days of the trip that carry a transport record
Legs(days) == {i \in DOMAIN days : days[i].transport # NoTransport}

RECURSIVE SumDailyCost(_)
SumDailyCost(days) ==
    IF days = <<>> THEN 0 ELSE Head(days).dailyCost + SumDailyCost(Tail(days))

\* the remaining budget as day d begins: maxBudget less the cost of days 1..d-1
BudgetAtStart(days, d) == request.maxBudget - SumDailyCost(SubSeq(days, 1, d - 1))

ActivityIds(tripDay) == {tripDay.activities[k].id : k \in DOMAIN tripDay.activities}

\* C1: generateRecommendation runs one loop iteration per requested day and
\* returns exactly durationDays TripDay records; while days are left the loop
\* goes on, whatever the budget, the candidates or the POIs
C1_ExactlyDurationDays ==
    /\ pc = "running" =>
          /\ Len(tripDays) = day - 1
          /\ day <= request.durationDays + 1
          /\ (day <= request.durationDays => LoopCondition(day, request.durationDays))
    /\ pc = "done" => Len(response.tripDays) = request.durationDays

\* C1 witness: a full itinerary was returned although the budget was already
\* negative when one of its days began
C1_Witness ==
    /\ pc = "done"
    /\ Len(response.tripDays) = request.durationDays
    /\ \E d \in DOMAIN response.tripDays : BudgetAtStart(response.tripDays, d) < 0

\* C2: in the response, totalCost is maxBudget - remainingBudget, and
\* remainingBudget is maxBudget less all transport and activity costs of the
\* days (possibly negative)
C2_TotalCostIdentity ==
    pc = "done" =>
        /\ response.totalCost = request.maxBudget - response.remainingBudget
        /\ response.remainingBudget =
                request.maxBudget - SumDailyCost(response.tripDays)

\* C2 witness: a response with a transport leg and a negative remaining budget
C2_Witness ==
    /\ pc = "done"
    /\ Legs(response.tripDays) # {}
    /\ response.remainingBudget < 0
    /\ response.totalCost > request.maxBudget

\* C3: no city is the target of two transport legs, and visitedCities is the
\* lower-cased origin together with the targets of the legs so far
C3_NoCityTwice ==
    pc \in {"running", "done"} =>
        /\ \A i, j \in Legs(tripDays) :
              i # j => tripDays[i].transport.to # tripDays[j].transport.to
        /\ visitedCities = {ToLowerCase(request.origin)}
                \cup {tripDays[i].transport.to : i \in Legs(tripDays)}

\* C3 witness: after two relocations the trip is in a city that has a route
\* to a city already visited
C3_Witness ==
    /\ pc = "done"
    /\ Cardinality(Legs(tripDays)) >= 2
    /\ \E k \in DOMAIN transportData :
          /\ ToLowerCase(transportData[k].from) = currentCity
          /\ ToLowerCase(transportData[k].to) \in visitedCities

\* C4: one call of selectActivitiesForCity on a city of pairwise distinct POI
\* ids returns at most 3 POIs, no two of the same id
C4_NoDuplicateActivities ==
    pc = "done" =>
        /\ Len(selection) <= 3
        /\ \A i, j \in DOMAIN selection : i # j => selection[i].id # selection[j].id

\* C4 witness: a call on a city of more than 3 POIs in which the rotation
\* phase ran (it left a non-zero cursor) and which returned 3 POIs, some
\* visited before and some not
C4_Witness ==
    /\ pc = "done"
    /\ CursorOf(poiRotationIndex, SelectCity) > 0
    /\ Len(selection) = 3
    /\ Len(PoisOf(poisData, SelectCity)) > 3
    /\ Ids(selection) \cap visitedPois # {}
    /\ Ids(selection) \ visitedPois # {}

\* C5: the option of every transport leg costs at most 0.3 x the budget that
\* remained when its day began
C5_TransportWithinCap ==
    \A d \in Legs(tripDays) :
        10 * tripDays[d].transport.option.cost <= 3 * BudgetAtStart(tripDays, d)

\* C5 witness: a leg taken under the widened mode filter whose cost is exactly
\* 0.3 x the budget at the start of its day
C5_Witness ==
    \E d \in Legs(tripDays) :
        /\ tripDays[d].transport.option.mode \notin request.transportPreference
        /\ 10 * tripDays[d].transport.option.cost = 3 * BudgetAtStart(tripDays, d)

\* C6: the i-th TripDay has day number i and the date i - 1 calendar days
\* after departureDate
C6_DayNumbersAndDates ==
    \A i \in DOMAIN tripDays :
        /\ tripDays[i].day = i
        /\ \E k \in DOMAIN DateStrings :
              /\ DateStrings[k] = request.departureDate
              /\ tripDays[i].date = DateStrings[k + i - 1]

\* C7: a TripDay has a transport record exactly when it is not day 1 and its
\* city differs from the city of the day before; day 1 is in the lower-cased
\* origin
C7_TransportIffCityChanged ==
    /\ \A i \in DOMAIN tripDays :
          (tripDays[i].transport # NoTransport)
            <=> (i > 1 /\ tripDays[i].city # tripDays[i - 1].city)
    /\ tripDays # <<>> =>
          /\ tripDays[1].transport = NoTransport
          /\ tripDays[1].city = ToLowerCase(request.origin)

\* C7 witness: a returned trip from an origin given in upper case, with a
\* day after the first that relocates and one that stays
C7_Witness ==
    /\ pc = "done"
    /\ ToLowerCase(request.origin) # request.origin
    /\ \E i, j \in DOMAIN tripDays :
          /\ i > 1 /\ j > 1
          /\ tripDays[i].transport # NoTransport
          /\ tripDays[j].transport = NoTransport

\* what the validator is to accept
RequestValid(req) ==
    /\ req.origin # ""
    /\ 1 <= req.durationDays /\ req.durationDays <= 30
    /\ req.maxBudget >= 100
    /\ req.transportPreference # {}
    /\ req.interests # {}
    /\ req.departureDate # ""

Range(s) == {s[i] : i \in DOMAIN s}

\* C8: validateTripRequest returns no message exactly for a valid request,
\* otherwise one message per violated rule; durationDays = 0 gives the
\* duration-range message
C8_ValidatorExact ==
    errors # NotValidated =>
        /\ (errors = <<>>) <=> RequestValid(request)
        /\ Cardinality(Range(errors)) = Len(errors)
        /\ (OriginMessage \in Range(errors)) <=> (request.origin = "")
        /\ (DurationMessage \in Range(errors))
              <=> ~(1 <= request.durationDays /\ request.durationDays <= 30)
        /\ (BudgetMessage \in Range(errors)) <=> (request.maxBudget < 100)
        /\ (TransportMessage \in Range(errors)) <=> (request.transportPreference = {})
        /\ (InterestMessage \in Range(errors)) <=> (request.interests = {})
        /\ (DateMessage \in Range(errors)) <=> (request.departureDate = "")
        /\ request.durationDays = 0 => DurationMessage \in Range(errors)

\* C8 witness: durationDays = 0 is the only fault and gives just the
\* duration-range message
C8_Witness ==
    /\ request.durationDays = 0
    /\ errors = <<DurationMessage>>

\* C9: two consecutive days in the same city of more than 3 POIs never have
\* the same set of activities
C9_ConsecutiveDaysDiffer ==
    \A i \in DOMAIN tripDays :
        (/\ i > 1
         /\ tripDays[i].city = tripDays[i - 1].city
         /\ Len(PoisOf(poisData, tripDays[i].city)) > 3)
        => ActivityIds(tripDays[i]) # ActivityIds(tripDays[i - 1])

\* C10: every day has exactly min(3, number of POIs of its city) activities,
\* none for a city without an entry in the POI table
C10_ActivityCount ==
    \A i \in DOMAIN tripDays :
        Len(tripDays[i].activities) =
            Min(3, Len(PoisOf(poisData, tripDays[i].city)))

\* C10 witness: a returned trip with a day in a city missing from the POI
\* table and a second day in a row in a city of fewer than 3 POIs
C10_Witness ==
    /\ pc = "done"
    /\ \E i \in DOMAIN tripDays :
          /\ tripDays[i].city \notin DOMAIN poisData
          /\ tripDays[i].activities = <<>>
    /\ \E j \in DOMAIN tripDays :
          /\ j > 1
          /\ tripDays[j].city = tripDays[j - 1].city
          /\ Len(tripDays[j].activities) \in {1, 2}

-----------------------------------------------------------------------------
\* the state a call of generateRecommendation on a new engine starts from
FreshRunState(req) ==
    /\ poiRotationIndex = <<>>
    /\ visitedPois = {}
    /\ visitedCities = {ToLowerCase(req.origin)}
    /\ consecutiveDaysInSameCity = 0
    /\ flexibleTransportActivated = FALSE
    /\ currentCity = ToLowerCase(req.origin)
    /\ remainingBudget = req.maxBudget
    /\ totalTravelTime = 0
    /\ tripDays = <<>>

\* C11: run state does not leak between runs.  Whenever a call of
\* generateRecommendation has just started on an engine, be it the first call
\* or a later one, poiRotationIndex and visitedPois are empty, visitedCities
\* is {origin}, the stuck counter is 0 and the flexible flag is false: the
\* state the day loop reads is the one a new engine starts the same request
\* from, so the results the run can give are the same.
C11_RunsStartFresh ==
    (pc = "running" /\ day = 1) => FreshRunState(request)

\* a second call has started, after a first call that left a cursor behind
C11_Witness ==
    /\ runs = MaxRuns
    /\ pc = "running"
    /\ day = 1
    /\ request.origin = "Oslo"

-----------------------------------------------------------------------------
\* the queries of the cards other than the one of `city` are as they were
OtherCardsKept(city) ==
    \A c \in DOMAIN cards \ {city} : c \in DOMAIN cards' /\ cards'[c] = cards[c]

\* C12: a failure of the LLM call for one city stays with that city.  The
\* request of that city is answered with an error status, and a query that
\* settles after it shows the 'unavailable' card; a card shows the guide only
\* after an LLM call for its own city succeeded, whatever happened to the
\* calls for other cities; and no step of a recommendation request changes
\* the TripResponse or the query of another city.
C12_FailureStaysWithCity ==
    /\ [](\A city \in DOMAIN cards :
            LET query == cards[city]
            IN  /\ query.llm = "failed" => ~IsOk(query.status)
                /\ query.phase = "error" =>
                        query.llm = "failed" /\ CardView(query) = "unavailable"
                /\ query.phase = "success" =>
                        query.llm = "ok" /\ CardView(query) = "guide")
    /\ [][cards' # cards =>
            /\ response' = response
            /\ \E city \in DOMAIN cards' : OtherCardsKept(city)]_vars

\* one city's card shows 'unavailable' after a failed LLM call while the card
\* of another city of the same itinerary shows its guide
C12_Witness ==
    /\ response # NoResponse
    /\ \E c1, c2 \in DOMAIN cards :
          /\ cards[c1].phase = "error"
          /\ cards[c1].llm = "failed"
          /\ cards[c2].phase = "success"

-----------------------------------------------------------------------------
\* a step of the day loop
DayStep == pc = "running" /\ day' = day + 1

\* the day's mode filter as the specification words it
StuckAtStart ==
    /\ request.durationDays >= 4
    /\ consecutiveDaysInSameCity >= 2
    /\ ~flexibleTransportActivated

FilterOfDay ==
    IF StuckAtStart THEN {"flight", "train", "bus", "car"}
    ELSE request.transportPreference

\* C13: on each day the router is given the user's transportPreference,
\* except on a day that starts with durationDays >= 4, the stuck counter >= 2
\* and the flexible flag false: that day it is given all four modes and the
\* flag becomes true (so the next day starts with the flag set and uses the
\* preference again).  Hence a leg whose mode is outside the preference is
\* found only in trips of at least 4 days, on a day d >= 3 whose two
\* preceding days were spent in one city.
C13_ModeFilterPerDay ==
    /\ [][DayStep =>
            LET candidates ==
                    IF day > 1
                    THEN findCandidateCities(transportData, currentCity,
                            visitedCities, FilterOfDay, remainingBudget)
                    ELSE <<>>
                today == tripDays'[day]
            IN  /\ StuckAtStart => flexibleTransportActivated'
                /\ today.transport # NoTransport =>
                        today.transport.option.mode \in FilterOfDay
                /\ today.city =
                        IF candidates # <<>>
                        THEN scoreCities(poisData, candidates, request.interests).city
                        ELSE currentCity]_vars
    /\ [](\A d \in 1..Len(tripDays) :
            (/\ tripDays[d].transport # NoTransport
             /\ tripDays[d].transport.option.mode \notin request.transportPreference)
            => /\ request.durationDays >= 4
               /\ d >= 3
               /\ tripDays[d - 1].city = tripDays[d - 2].city)

\* a finished trip with a leg whose mode the user did not ask for
C13_Witness ==
    /\ pc = "done"
    /\ \E d \in 1..Len(tripDays) :
          /\ tripDays[d].transport # NoTransport
          /\ tripDays[d].transport.option.mode \notin request.transportPreference

-----------------------------------------------------------------------------
\* C14: the one-shot flexible flag clears once a relocation succeeds.  After
\* any day on which the itinerary relocated, flexibleTransportActivated is
\* false and the stuck counter is 0, so a later stuck episode widens the mode
\* filter again.
C14_FlagClearsOnRelocation ==
    (/\ pc = "running"
     /\ tripDays # <<>>
     /\ tripDays[Len(tripDays)].transport # NoTransport)
    => (~flexibleTransportActivated /\ consecutiveDaysInSameCity = 0)

-----------------------------------------------------------------------------
\* C15: on every day d > 1 the itinerary relocates if and only if
\* findCandidateCities returns a non-empty list (day 1 never relocates);
\* scoreCities returns null only for an empty list and otherwise the first
\* candidate, in candidate order, whose score (50 plus the summed
\* popularityScore of its interest-matching POIs) is maximal.  A relocation
\* deducts the leg's cost from remainingBudget, adds its durationHrs to
\* totalTravelTime and adds the city to visitedCities; otherwise the day is
\* spent in the previous day's city and only the activities are paid.
C15_RelocateIffCandidates ==
    [][DayStep =>
        LET candidates ==
                IF day > 1
                THEN findCandidateCities(transportData, currentCity,
                        visitedCities, FilterOfDay, remainingBudget)
                ELSE <<>>
            score(i) == CityScore(poisData, candidates[i], request.interests)
            today == tripDays'[day]
            relocated == today.transport # NoTransport
        IN  /\ relocated <=> (day > 1 /\ candidates # <<>>)
            /\ (scoreCities(poisData, candidates, request.interests) = Null)
                    <=> (candidates = <<>>)
            /\ relocated =>
                  /\ \E i \in 1..Len(candidates) :
                        /\ today.city = candidates[i].city
                        /\ today.transport.option = candidates[i].transport
                        /\ \A j \in 1..Len(candidates) : score(j) <= score(i)
                        /\ \A j \in 1..(i - 1) : score(j) < score(i)
                  /\ today.transport.from = currentCity
                  /\ totalTravelTime' =
                        totalTravelTime + today.transport.option.durationHrs
                  /\ visitedCities' = visitedCities \cup {today.city}
                  /\ today.dailyCost >= today.transport.option.cost
                  /\ remainingBudget' = (remainingBudget - today.transport.option.cost)
                        - (today.dailyCost - today.transport.option.cost)
                  /\ today.activities = <<>> =>
                        remainingBudget' = remainingBudget - today.transport.option.cost
            /\ ~relocated =>
                  /\ today.city = currentCity
                  /\ totalTravelTime' = totalTravelTime
                  /\ visitedCities' = visitedCities
                  /\ remainingBudget' = remainingBudget - today.dailyCost]_vars

\* a relocation to the first of two candidates of equal score, and before it
\* a day that found no candidate
C15_Witness ==
    /\ pc = "done"
    /\ request.origin = "rome"
    /\ request.interests = {"art"}
    /\ Len(tripDays) >= 3
    /\ tripDays[2].city = "oslo"
    /\ tripDays[2].transport # NoTransport
    /\ tripDays[3].transport = NoTransport

-----------------------------------------------------------------------------
\* the options of a route that pass the filter of the router call: mode in
\* the filter and cost <= 0.3 x remainingBudget
Surviving(route) ==
    {k \in 1..Len(route.options) :
        /\ route.options[k].mode \in request.transportPreference
        /\ route.options[k].cost * 10 <= remainingBudget * 3}

Weighted(option) == option.cost + 10 * option.durationHrs

\* the routes out of currentCity to `city`
RoutesTo(city) ==
    {r \in 1..Len(transportData) :
        /\ ToLowerCase(transportData[r].from) = currentCity
        /\ ToLowerCase(transportData[r].to) = city}

\* C16: findCandidateCities returns at most one entry per unvisited
\* destination reachable from currentCity; the entry's transport is, among
\* the route's options with mode in the filter and cost <= 0.3 x
\* remainingBudget, one of minimal cost + 10 x durationHrs, and the earliest
\* such option in catalog order; a destination gets an entry exactly when it
\* is unvisited and its route keeps an option.
C16_BestOptionPerDestination ==
    pc = "done" =>
        /\ \A i, j \in 1..Len(selection) :
                selection[i].city = selection[j].city => i = j
        /\ \A i \in 1..Len(selection) :
                /\ selection[i].city \notin visitedCities
                /\ \E r \in RoutesTo(selection[i].city) :
                     \E k \in Surviving(transportData[r]) :
                        LET options == transportData[r].options
                        IN  /\ selection[i].transport = options[k]
                            /\ \A m \in Surviving(transportData[r]) :
                                  /\ Weighted(options[k]) <= Weighted(options[m])
                                  /\ m < k => Weighted(options[k]) < Weighted(options[m])
        /\ \A city \in RouteCities :
                (\E i \in 1..Len(selection) : selection[i].city = city)
                <=> /\ city \notin visitedCities
                    /\ \E r \in RoutesTo(city) : Surviving(transportData[r]) # {}

\* a call that returns two entries, one of them the second of three options
\* of equal weighted score and not the cheapest, while a third destination
\* has lost its only option to the cost cap
C16_Witness ==
    /\ pc = "done"
    /\ transportData = TieTransport
    /\ currentCity = "oslo"
    /\ visitedCities = {"oslo"}
    /\ request.transportPreference = AllModes
    /\ remainingBudget = 100
    /\ Len(selection) = 2
    /\ selection[1].city = "berlin"
    /\ selection[1].transport.mode = "car"
    /\ selection[2].city = "rome"

-----------------------------------------------------------------------------
\* the score of a city when a POI counts whenever it qualifies for the
\* interest phase of the activity selector
RECURSIVE SubstringScore(_, _)
SubstringScore(cityPois, interests) ==
    IF cityPois = <<>> THEN 0
    ELSE (IF MatchesInterest(Head(cityPois), interests)
          THEN (IF Head(cityPois).popularityScore = 0 THEN 1
                ELSE Head(cityPois).popularityScore)
          ELSE 0) + SubstringScore(Tail(cityPois), interests)

\* C17: scoreCities counts a POI toward the score of a candidate city
\* whenever the POI's category contains a requested interest as a
\* case-insensitive substring, the rule of the interest phase: the score of
\* every candidate the router hands to the scorer is 50 plus the popularity
\* of the POIs that qualify for the interest phase.
C17_ScoreUsesSubstringRule ==
    (pc = "running" /\ day > 1 /\ day <= request.durationDays) =>
        LET candidates == findCandidateCities(transportData, currentCity,
                                visitedCities, FilterOfDay, remainingBudget)
        IN  \A i \in 1..Len(candidates) :
                CityScore(poisData, candidates[i], request.interests)
                    = 50 + SubstringScore(PoisOf(poisData, candidates[i].city),
                                          request.interests)

-----------------------------------------------------------------------------
\* the POIs of the city of the single call
CallPois == PoisOf(poisData, SelectCity)

\* the positions of the POIs that match an interest and are not visited
Matching ==
    {i \in 1..Len(CallPois) :
        /\ \E interest \in request.interests :
                Includes(ToLowerCase(CallPois[i].category), ToLowerCase(interest))
        /\ CallPois[i].id \notin visitedPois}

\* the positions of the POIs the call returned
Chosen == {i \in 1..Len(CallPois) : CallPois[i].id \in Ids(selection)}

\* C18: interest-matching unvisited POIs take priority.  If the city has m
\* POIs that match an interest and are not in visitedPois, the activities
\* hold min(3, m) of them, no unselected one of them has a strictly higher
\* popularityScore than a selected one, and a POI that is not one of them is
\* returned only when m < 3.
C18_InterestPriority ==
    pc = "done" =>
        /\ Cardinality(Matching \cap Chosen) = Min(3, Cardinality(Matching))
        /\ \A i \in Matching \cap Chosen, j \in Matching \ Chosen :
                CallPois[j].popularityScore <= CallPois[i].popularityScore
        /\ Cardinality(Matching) >= 3 => Chosen \subseteq Matching

\* a call in a city of four matching unvisited POIs, the least popular of
\* them first in the catalog and left out
C18_Witness ==
    /\ pc = "done"
    /\ Cardinality(Matching) = 4
    /\ 1 \in Matching \ Chosen
    /\ \A j \in Matching \ {1} :
            CallPois[j].popularityScore > CallPois[1].popularityScore

-----------------------------------------------------------------------------
\* the positions of the POIs not visited before the call
Unvisited == {i \in 1..Len(CallPois) : CallPois[i].id \notin visitedPois}

\* the POIs the popularity phase may add: not visited and not selected by the
\* interest phase (which takes every matching POI when there are fewer than 3)
Eligible == Unvisited \ Matching

\* the POIs the popularity phase added
Fillers == Chosen \cap Eligible

\* C19: when the interest phase selects k < 3 POIs, the popularity phase
\* fills the remaining slots with the not-yet-selected, not-visited POIs in
\* descending popularityScore order: its fillers are the (up to 3 - k) most
\* popular of those POIs.
C19_FillersByPopularity ==
    (pc = "done" /\ Cardinality(Matching) < 3) =>
        /\ Cardinality(Fillers) = Min(3 - Cardinality(Matching), Cardinality(Eligible))
        /\ \A i \in Fillers, j \in Eligible \ Fillers :
                CallPois[j].popularityScore <= CallPois[i].popularityScore

\* C19, amended: when the interest phase selects k < 3 POIs, the popularity
\* phase fills the remaining slots with min(3 - k, e) of the e
\* not-yet-selected, not-visited POIs of the city, whichever the shuffle puts
\* first, of any popularity; a visited POI is returned only when all e of
\* them are.
C19_FillersAnyUnvisited ==
    (pc = "done" /\ Cardinality(Matching) < 3) =>
        /\ Cardinality(Fillers) = Min(3 - Cardinality(Matching), Cardinality(Eligible))
        /\ Chosen \ Unvisited # {} => Eligible \subseteq Chosen

\* a call whose fillers leave out a POI more popular than one of them
C19_Witness ==
    /\ pc = "done"
    /\ Cardinality(Matching) < 3
    /\ \E i \in Fillers, j \in Eligible \ Fillers :
            CallPois[j].popularityScore > CallPois[i].popularityScore

-----------------------------------------------------------------------------
\* the POIs the rotation phase of the single call rotates over: it runs when
\* fewer than 3 POIs of the city are unvisited, the first two phases have
\* then selected every unvisited POI, and the visited ones remain
Rotated == {i \in 1..Len(CallPois) : CallPois[i].id \in visitedPois}

\* C20: in the rotation phase the cursor of the city advances by the number
\* of slots the phase filled in that call: when it adds k POIs from a
\* remaining list of length L, the cursor afterwards is (old cursor + k) mod
\* L; it keeps its value when the phase does not run or the remaining list is
\* empty.
C20_CursorAdvancesByFilled ==
    [][(pc = "idle" /\ pc' = "done") =>
        LET old == CursorOf(poiRotationIndex, SelectCity)
            L == Cardinality(Rotated)
            k == Min(L, 3 - Cardinality(Unvisited))
        IN  CursorOf(poiRotationIndex', SelectCity) =
                IF Cardinality(Unvisited) < 3 /\ L > 0
                THEN (old + k) % L
                ELSE old]_vars

-----------------------------------------------------------------------------
\* the ids of the POIs scheduled on the days before day d
ScheduledBefore(d) == UNION {ActivityIds(tripDays[e]) : e \in 1..(d - 1)}

\* C21: a POI is repeated only when the unused POIs of the city are
\* exhausted.  With POI ids unique across the catalog, a POI scheduled on an
\* earlier day is among the activities of day d only if every POI of day d's
\* city that was not scheduled before day d is among them too.
C21_RepeatOnlyWhenExhausted ==
    \A d \in 1..Len(tripDays) :
        ActivityIds(tripDays[d]) \cap ScheduledBefore(d) # {} =>
            \A i \in 1..Len(PoisOf(poisData, tripDays[d].city)) :
                LET id == PoisOf(poisData, tripDays[d].city)[i].id
                IN  id \notin ScheduledBefore(d) => id \in ActivityIds(tripDays[d])

\* a day that repeats two POIs next to the one POI of the city left unused
C21_Witness ==
    /\ Len(tripDays) >= 2
    /\ tripDays[2].city = "paris"
    /\ Cardinality(ActivityIds(tripDays[2]) \cap ScheduledBefore(2)) = 2
    /\ Cardinality(ActivityIds(tripDays[2]) \ ScheduledBefore(2)) = 1

-----------------------------------------------------------------------------
\* the base cost table as the specification gives it, looked up by the
\* lower-cased category; 15 for a category not in the table
TableBase(category) ==
    LET c == ToLowerCase(category)
    IN  CASE c = "museums" -> 15
          [] c = "art" -> 12
          [] c = "history" -> 10
          [] c = "architecture" -> 5
          [] c = "food" -> 25
          [] c = "shopping" -> 0
          [] c = "nature" -> 0
          [] c = "nightlife" -> 30
          [] c = "entertainment" -> 20
          [] OTHER -> 15

\* C22: estimateActivityCost(category) returns an integer in
\* [base - 5, base + 4], base looked up case-insensitively in the table
\* (shopping 0, nature 0, ...) and 15 for a category not in the table; a
\* shopping or nature POI costs between -5 and 4.
C22_CostWithinTableRange ==
    pc = "done" =>
        \A i \in 1..Len(selection) :
            /\ selection[i].cost >= TableBase(selection[i].category) - 5
            /\ selection[i].cost <= TableBase(selection[i].category) + 4

\* the label of a slot of the table with the period the table gives it
\* (start hour, its period, end hour, its period)
TableSlot(index) ==
    CASE index = 1 -> <<1, "PM", 3, "PM">>
      [] index = 2 -> <<4, "PM", 6, "PM">>
      [] OTHER -> <<9, "AM", 12, "PM">>

\* C23: generateTimeSlot maps index 0 to 9:00 AM - 12:00 PM, index 1 to
\* 1:00 PM - 3:00 PM, index 2 to 4:00 PM - 6:00 PM and any index >= 3 to the
\* first slot, so the activities of one day get pairwise distinct labels.
C23_SlotLabels ==
    \A d \in 1..Len(tripDays) :
        LET activities == tripDays[d].activities
        IN  /\ \A k \in 1..Len(activities) : activities[k].time = TableSlot(k - 1)
            /\ \A k, l \in 1..Len(activities) :
                    activities[k].time = activities[l].time => k = l

-----------------------------------------------------------------------------
\* the cost of the transport leg of a TripDay, 0 when there is none
LegCost(tripDay) ==
    IF tripDay.transport = NoTransport THEN 0 ELSE tripDay.transport.option.cost

RECURSIVE SumLegHours(_)
SumLegHours(days) ==
    IF days = <<>> THEN 0
    ELSE (IF Head(days).transport = NoTransport THEN 0
          ELSE Head(days).transport.option.durationHrs) + SumLegHours(Tail(days))

\* the least and the greatest sum the cost estimator can give the activities
\* of a TripDay
RECURSIVE SumBase(_)
SumBase(activities) ==
    IF activities = <<>> THEN 0
    ELSE BaseCost(Head(activities).category) + SumBase(Tail(activities))

\* C24: accounting is consistent per day and in total.  The dailyCost of a
\* TripDay is the sum of the day's activity cost estimates plus the cost of
\* the day's leg (0 without one): it is what the day took from
\* remainingBudget, and less the leg it lies within the estimator's range
\* for the day's activities.  The sum of dailyCost over tripDays is
\* totalCost, and totalTravelTime is the sum of durationHrs over the legs.
C24_AccountingConsistent ==
    /\ [][DayStep =>
            LET today == tripDays'[day]
                n == Len(today.activities)
            IN  /\ today.dailyCost = remainingBudget - remainingBudget'
                /\ today.dailyCost - LegCost(today) >= SumBase(today.activities) - 5 * n
                /\ today.dailyCost - LegCost(today) <= SumBase(today.activities) + 4 * n]_vars
    /\ [](/\ pc # "idle" =>
                SumDailyCost(tripDays) = request.maxBudget - remainingBudget
          /\ totalTravelTime = SumLegHours(tripDays)
          /\ pc = "done" =>
                /\ response.totalCost = SumDailyCost(response.tripDays)
                /\ response.totalTravelTime = SumLegHours(response.tripDays))

\* a response of two legs, on days that have activities as well
C24_Witness ==
    /\ pc = "done"
    /\ Cardinality(Legs(response.tripDays)) >= 2
    /\ \A d \in Legs(response.tripDays) :
            /\ response.tripDays[d].transport.option.cost > 0
            /\ response.tripDays[d].dailyCost > response.tripDays[d].transport.option.cost
    /\ response.totalTravelTime > 0

-----------------------------------------------------------------------------
\* C25: generateRecommendation leaves the catalog unchanged.  No step of a
\* run changes the transport table, the order of a route's option list
\* included, or the POI list of any city, its order included; after a run
\* both are what they were before it.
C25_CatalogUnchanged ==
    /\ [][transportData' = transportData /\ poisData' = poisData]_vars
    /\ [](transportData = CatalogTransport /\ poisData = CatalogPois)

\* a finished run that took a route whose options are not listed in the
\* order of their weighted score, out of a city whose POIs are not listed by
\* popularity
C25_Witness ==
    /\ pc = "done"
    /\ \E d \in Legs(tripDays) :
          /\ tripDays[d].transport.from = "paris"
          /\ tripDays[d].city = "rome"
    /\ SortByPopularity(CatalogPois["paris"]) # CatalogPois["paris"]
    /\ \E i \in 1..Len(CatalogTransport) :
          SortByScore(CatalogTransport[i].options) # CatalogTransport[i].options

-----------------------------------------------------------------------------
\* the days of the trip whose leg has a mode outside the preference
OutsidePreference(days) ==
    {d \in Legs(days) : days[d].transport.option.mode \notin request.transportPreference}

-----------------------------------------------------------------------------
\* the transport costs of the catalog are not negative
CatalogCostsNonNegative ==
    \A i \in 1..Len(transportData) :
        \A k \in 1..Len(transportData[i].options) :
            transportData[i].options[k].cost >= 0

\* C27: with non-negative transport costs remainingBudget becomes negative
\* only through an activity deduction.  The deduction of a leg never takes a
\* non-negative remainingBudget below zero, and from the first day that
\* starts with a negative remainingBudget on no day relocates: every later
\* TripDay has the same city and no transport.
C27_NegativeOnlyByActivities ==
    CatalogCostsNonNegative =>
        \A d \in 1..Len(tripDays) :
            /\ (BudgetAtStart(tripDays, d) >= 0 /\ d \in Legs(tripDays)) =>
                    BudgetAtStart(tripDays, d) - tripDays[d].transport.option.cost >= 0
            /\ BudgetAtStart(tripDays, d) < 0 =>
                    \A e \in d..Len(tripDays) :
                        /\ tripDays[e].transport = NoTransport
                        /\ tripDays[e].city = tripDays[d - 1].city

\* a day of a trip of at least 4 days that is the first to start with a
\* negative budget, in a city from which a route to a city not yet seen
\* exists, and stays
C27_Witness ==
    /\ Len(tripDays) >= 3
    /\ \E d \in 3..Len(tripDays) :
          /\ BudgetAtStart(tripDays, d) < 0
          /\ BudgetAtStart(tripDays, d - 1) >= 0
          /\ request.durationDays >= 4
          /\ tripDays[d].transport = NoTransport
          /\ \E i \in 1..Len(transportData) :
                /\ ToLowerCase(transportData[i].from) = tripDays[d].city
                /\ ToLowerCase(transportData[i].to) \notin
                        {tripDays[e].city : e \in 1..Len(tripDays)}

-----------------------------------------------------------------------------
\* C28: the itinerary is a simple path that starts at the origin.  Day 1 is
\* spent in the origin; every transport record has from = the city of the
\* day before and to = the city of its day; the origin is never the to of a
\* transport; and the days spent in one city are one contiguous block: once
\* the itinerary has left a city no later TripDay has that city.
C28_SimplePath ==
    /\ Len(tripDays) >= 1 =>
            /\ tripDays[1].city = ToLowerCase(request.origin)
            /\ tripDays[1].transport = NoTransport
    /\ \A d \in Legs(tripDays) :
            /\ d > 1
            /\ tripDays[d].transport.from = tripDays[d - 1].city
            /\ tripDays[d].transport.to = tripDays[d].city
            /\ tripDays[d].transport.to # ToLowerCase(request.origin)
    /\ \A d, e, f \in 1..Len(tripDays) :
            (d < e /\ e < f /\ tripDays[d].city = tripDays[f].city)
            => tripDays[e].city = tripDays[d].city

\* a trip through three cities that ends in a city with a route back to the
\* origin
C28_Witness ==
    /\ pc = "done"
    /\ Cardinality({tripDays[d].city : d \in 1..Len(tripDays)}) = 3
    /\ \E i \in 1..Len(transportData) :
          /\ ToLowerCase(transportData[i].from) = tripDays[Len(tripDays)].city
          /\ ToLowerCase(transportData[i].to) = ToLowerCase(request.origin)

-----------------------------------------------------------------------------
(* useFavorites (hooks/useFavorites.ts) and the favourite toggle of the     *)
(* activity and transport cards                                             *)

FavoriteTypes == {"activity", "transport"}
FavoriteItemIds == {"p1", "p2"}
\* values of Date.now() at the calls
Timestamps == {1, 2}

\* localStorage.setItem(STORAGE_KEY, JSON.stringify(items)): the stored text
JSON_stringify(items) == [json |-> items]
JSON_parse(text) == text.json

\* line 34: id: `${itemType}_${itemId}_${Date.now()}`
FavoriteId(itemType, itemId, now) ==
    itemType \o "_" \o itemId \o "_" \o ToString(now)

\* lines 70-72: favorites.some(fav => fav.itemType === itemType && ...)
isFavorite(list, itemType, itemId) ==
    \E k \in DOMAIN list : list[k].itemType = itemType /\ list[k].itemId = itemId

\* lines 32-50: addFavorite; the list is written only when it changed
addFavorite(itemType, itemId, now) ==
    LET newFavorite == [id |-> FavoriteId(itemType, itemId, now),
                        itemType |-> itemType, itemId |-> itemId]
    IN  IF isFavorite(favorites, itemType, itemId)
        THEN UNCHANGED <<favorites, favoritesStorage>>
        ELSE /\ favorites' = <<newFavorite>> \o favorites
             /\ favoritesStorage' = JSON_stringify(<<newFavorite>> \o favorites)

\* lines 52-60: the removeFavorite declared in the hook, by (itemType, itemId)
removeFavoriteByPair(itemType, itemId) ==
    LET Keep(fav) == ~(fav.itemType = itemType /\ fav.itemId = itemId)
        newFavorites == SelectSeq(favorites, Keep)
    IN  /\ favorites' = newFavorites
        /\ favoritesStorage' = JSON_stringify(newFavorites)

\* lines 62-68: removeFavoriteById
removeFavoriteById(id) ==
    LET Keep(fav) == fav.id # id
        newFavorites == SelectSeq(favorites, Keep)
    IN  /\ favorites' = newFavorites
        /\ favoritesStorage' = JSON_stringify(newFavorites)

\* lines 83-91: the returned object names the key removeFavorite twice; the
\* later one (line 87) is the one the object holds, so the exported
\* removeFavorite is removeFavoriteById and reads only its first argument
removeFavorite(first, second) == removeFavoriteById(first)

HooksOtherUnchanged ==
    UNCHANGED <<request, tz, transportData, poisData, poiRotationIndex, pc, day,
                currentCity, remainingBudget, totalTravelTime, tripDays,
                visitedCities, visitedPois, consecutiveDaysInSameCity,
                flexibleTransportActivated, response, errors, selection, runs,
                cards>>

\* a component calls addFavorite
Favorites_Add ==
    \E itemType \in FavoriteTypes, itemId \in FavoriteItemIds, now \in Timestamps :
       /\ addFavorite(itemType, itemId, now)
       /\ lastCall' = [op |-> "addFavorite", args |-> <<itemType, itemId>>,
                       wasFavorite |-> isFavorite(favorites, itemType, itemId),
                       returned |-> Null]
       /\ UNCHANGED <<savedTrips, savedTripsStorage, hookCalls>>
       /\ HooksOtherUnchanged

\* a component calls the exported removeFavorite with the id of an entry
Favorites_Remove ==
    \E k \in DOMAIN favorites :
       /\ removeFavorite(favorites[k].id, "")
       /\ lastCall' = [op |-> "removeFavorite", args |-> <<favorites[k].id, "">>,
                       wasFavorite |-> TRUE, returned |-> Null]
       /\ UNCHANGED <<savedTrips, savedTripsStorage, hookCalls>>
       /\ HooksOtherUnchanged

\* ActivityCard / TransportCard handleToggleFavorite (lines 178-189)
handleToggleFavorite(itemType, itemId, now) ==
    IF isFavorite(favorites, itemType, itemId)
    THEN removeFavorite(itemType, itemId)
    ELSE addFavorite(itemType, itemId, now)

Card_Toggle ==
    \E itemType \in FavoriteTypes, itemId \in FavoriteItemIds, now \in Timestamps :
       /\ handleToggleFavorite(itemType, itemId, now)
       /\ lastCall' = [op |-> "handleToggleFavorite", args |-> <<itemType, itemId>>,
                       wasFavorite |-> isFavorite(favorites, itemType, itemId),
                       returned |-> Null]
       /\ UNCHANGED <<savedTrips, savedTripsStorage, hookCalls>>
       /\ HooksOtherUnchanged

\* lines 78-81: clearFavorites
Favorites_Clear ==
    /\ favorites' = <<>>
    /\ favoritesStorage' = NoItem
    /\ lastCall' = [op |-> "clearFavorites", args |-> <<>>, wasFavorite |-> FALSE,
                    returned |-> Null]
    /\ UNCHANGED <<savedTrips, savedTripsStorage, hookCalls>>
    /\ HooksOtherUnchanged

InitFavorites ==
    /\ request \in RecommendationRequests
    /\ tz = CHOOSE z \in TimeZones : z.name = "UTC"
    /\ transportData = CatalogTransport
    /\ poisData = CatalogPois
    /\ poiRotationIndex = <<>>
    /\ EngineIdle
    /\ errors = NotValidated
    /\ selection = NoSelection
    /\ runs = 0
    /\ cards = <<>>
    /\ HooksInit

NextFavorites == Favorites_Add \/ Favorites_Remove \/ Card_Toggle \/ Favorites_Clear

SpecFavorites == InitFavorites /\ [][NextFavorites]_vars

\* the entries of a stored text that carry the pair
StoredHasPair(text, itemType, itemId) ==
    /\ text # NoItem
    /\ isFavorite(JSON_parse(text), itemType, itemId)

\* the latest call was a card's toggle of an item that was a favourite
ToggledOff(itemType, itemId) ==
    /\ lastCall.op = "handleToggleFavorite"
    /\ lastCall.args = <<itemType, itemId>>
    /\ lastCall.wasFavorite

\* no (itemType, itemId) pair has two entries in the list
NoDuplicatePairs ==
    \A j, k \in DOMAIN favorites :
       (favorites[j].itemType = favorites[k].itemType
        /\ favorites[j].itemId = favorites[k].itemId) => j = k

\* C29: after addFavorite(type, id, data), the toggle's call of the exported
\* removeFavorite(type, id) leaves isFavorite(type, id) false and no entry
\* with that pair in the list or in localStorage; and addFavorite never makes
\* a second entry for a pair that is already present.
C29_ToggleRoundTrip ==
    /\ \A itemType \in FavoriteTypes, itemId \in FavoriteItemIds :
          ToggledOff(itemType, itemId)
             => /\ ~isFavorite(favorites, itemType, itemId)
                /\ ~StoredHasPair(favoritesStorage, itemType, itemId)
    /\ NoDuplicatePairs

\* the second half of C29 alone: addFavorite never makes a second entry
C29_AddIsIdempotent == NoDuplicatePairs

-----------------------------------------------------------------------------
(* useSavedTrips (hooks/useSavedTrips.ts)                                   *)

MAX_SAVED_TRIPS == 20
\* calls made on the hook in one behaviour
MaxCalls == 3

\* TripResponse values handed to saveTrip: the cities of their tripDays
TripResults == {<<"paris">>, <<"oslo", "rome">>, <<"oslo", "berlin", "rome", "paris">>}
\* the optional name argument of saveTrip; NoName is undefined
NoName == "undefined"
TripNames == {NoName, "Summer"}

\* lines 119-121: capitalize, on the city names of the catalog
capitalize(city) ==
    CASE city = "paris" -> "Paris"
      [] city = "rome" -> "Rome"
      [] city = "berlin" -> "Berlin"
      [] city = "oslo" -> "Oslo"
      [] OTHER -> city

\* Array.from(new Set(list)): first occurrences, in order
Distinct(list) ==
    LET First(k) == \A j \in 1..(k - 1) : list[j] # list[k]
        RECURSIVE Keep(_)
        Keep(k) == IF k > Len(list) THEN <<>>
                   ELSE (IF First(k) THEN <<list[k]>> ELSE <<>>) \o Keep(k + 1)
    IN  Keep(1)

\* lines 103-117: generateTripName
generateTripName(tripCities) ==
    LET cities == Distinct(tripCities)
        days == ToString(Len(tripCities))
    IN  IF Len(cities) = 1
        THEN capitalize(cities[1]) \o " (" \o days \o " days)"
        ELSE IF Len(cities) = 2
        THEN capitalize(cities[1]) \o " & " \o capitalize(cities[2])
                \o " (" \o days \o " days)"
        ELSE capitalize(cities[1]) \o "->" \o capitalize(cities[Len(cities)])
                \o " (" \o ToString(Len(cities)) \o " cities, " \o days \o " days)"

\* Date.now() (with the Math.random() suffix of the id) at the next call: a
\* value no trip saved before carries
Stamp == MAX_SAVED_TRIPS + hookCalls + 1

\* lines 39 and 82: id: `trip_${Date.now()}_${Math.random()...}`
TripId(stamp) == "trip_" \o ToString(stamp)

\* mutant: the list is not cut
Capped_Uncut(trips) == trips

\* lines 46 and 89: .slice(0, MAX_SAVED_TRIPS)
Capped(trips) ==
    SubSeq(trips, 1, IF Len(trips) < MAX_SAVED_TRIPS THEN Len(trips) ELSE MAX_SAVED_TRIPS)

\* lines 45-49 and 88-92: the new trip goes in front, the list is cut and
\* written to localStorage
PutInFront(trip) ==
    LET newTrips == Capped(<<trip>> \o savedTrips)
    IN  /\ savedTrips' = newTrips
        /\ savedTripsStorage' = JSON_stringify(newTrips)

\* lines 33-52: saveTrip
saveTrip(tripCities, name) ==
    LET generatedName == IF name # NoName THEN name ELSE generateTripName(tripCities)
        savedTrip == [id |-> TripId(Stamp), name |-> generatedName,
                      createdAt |-> Stamp, updatedAt |-> Stamp]
    IN  /\ PutInFront(savedTrip)
        /\ lastCall' = [op |-> "saveTrip", args |-> <<tripCities, name>>,
                        wasFavorite |-> FALSE, returned |-> savedTrip]

\* { ...trip, ...updates }
Spread(trip, updates) ==
    [f \in DOMAIN trip |-> IF f \in DOMAIN updates THEN updates[f] ELSE trip[f]]

\* lines 54-62: updateTrip
updateTrip(tripId, updates) ==
    LET newTrips == [k \in DOMAIN savedTrips |->
                        IF savedTrips[k].id = tripId
                        THEN [Spread(savedTrips[k], updates) EXCEPT !.updatedAt = Stamp]
                        ELSE savedTrips[k]]
    IN  /\ savedTrips' = newTrips
        /\ savedTripsStorage' = JSON_stringify(newTrips)
        /\ lastCall' = [op |-> "updateTrip", args |-> <<tripId, updates>>,
                        wasFavorite |-> FALSE, returned |-> Null]

\* prev.filter((trip) => trip.id !== tripId)
WithoutTrip(trips, tripId) ==
    LET Keep(trip) == trip.id # tripId
    IN  SelectSeq(trips, Keep)

\* lines 64-70: deleteTrip
deleteTrip(tripId) ==
    LET newTrips == WithoutTrip(savedTrips, tripId)
    IN  /\ savedTrips' = newTrips
        /\ savedTripsStorage' = JSON_stringify(newTrips)
        /\ lastCall' = [op |-> "deleteTrip", args |-> <<tripId>>,
                        wasFavorite |-> FALSE, returned |-> Null]

\* lines 72-74: getTrip; Null is undefined
getTrip(tripId) ==
    IF \E k \in DOMAIN savedTrips : savedTrips[k].id = tripId
    THEN savedTrips[CHOOSE k \in DOMAIN savedTrips :
                       /\ savedTrips[k].id = tripId
                       /\ \A j \in 1..(k - 1) : savedTrips[j].id # tripId]
    ELSE Null

\* lines 76-95: duplicateTrip
duplicateTrip(tripId) ==
    LET original == getTrip(tripId)
        copy == [original EXCEPT !.id = TripId(Stamp),
                                 !.name = original.name \o " (Copy)",
                                 !.createdAt = Stamp, !.updatedAt = Stamp]
    IN  IF original = Null
        THEN /\ UNCHANGED <<savedTrips, savedTripsStorage>>
             /\ lastCall' = [op |-> "duplicateTrip", args |-> <<tripId>>,
                             wasFavorite |-> FALSE, returned |-> Null]
        ELSE /\ PutInFront(copy)
             /\ lastCall' = [op |-> "duplicateTrip", args |-> <<tripId>>,
                             wasFavorite |-> FALSE, returned |-> copy]

\* the trip ids a caller passes: the first, second and last trip of the list
\* and one id that no trip carries
TripTargets ==
    {savedTrips[k].id : k \in DOMAIN savedTrips \cap {1, 2, Len(savedTrips)}}
        \cup {TripId(0)}

\* the updates a caller passes: a new name, or another trip's id
TripUpdates == {[name |-> "Renamed"], [id |-> TripId(1)]}

TripsOtherUnchanged ==
    /\ hookCalls < MaxCalls
    /\ hookCalls' = hookCalls + 1
    /\ UNCHANGED <<favorites, favoritesStorage>>
    /\ HooksOtherUnchanged

Trips_Save ==
    \E tripCities \in TripResults, name \in TripNames :
       saveTrip(tripCities, name) /\ TripsOtherUnchanged

Trips_Update ==
    \E tripId \in TripTargets, updates \in TripUpdates :
       updateTrip(tripId, updates) /\ TripsOtherUnchanged

Trips_Delete ==
    \E tripId \in TripTargets : deleteTrip(tripId) /\ TripsOtherUnchanged

Trips_Duplicate ==
    \E tripId \in TripTargets : duplicateTrip(tripId) /\ TripsOtherUnchanged

\* the list an earlier session left in localStorage: n trips, newest first
StoredTrips(n) ==
    [k \in 1..n |-> [id |-> TripId(n + 1 - k), name |-> "Paris (1 days)",
                     createdAt |-> n + 1 - k, updatedAt |-> n + 1 - k]]

StoredCounts == {0, MAX_SAVED_TRIPS - 2, MAX_SAVED_TRIPS - 1, MAX_SAVED_TRIPS}

\* lines 15-27: the hook after its mount effect has read localStorage
InitTrips ==
    /\ request \in RecommendationRequests
    /\ tz = CHOOSE z \in TimeZones : z.name = "UTC"
    /\ transportData = CatalogTransport
    /\ poisData = CatalogPois
    /\ poiRotationIndex = <<>>
    /\ EngineIdle
    /\ errors = NotValidated
    /\ selection = NoSelection
    /\ runs = 0
    /\ cards = <<>>
    /\ favorites = <<>>
    /\ favoritesStorage = NoItem
    /\ savedTripsStorage \in
          {NoItem} \cup {JSON_stringify(StoredTrips(n)) : n \in StoredCounts}
    /\ savedTrips = IF savedTripsStorage = NoItem THEN <<>>
                    ELSE JSON_parse(savedTripsStorage)
    /\ hookCalls = 0
    /\ lastCall = NoCall

NextTrips == Trips_Save \/ Trips_Update \/ Trips_Delete \/ Trips_Duplicate

SpecTrips == InitTrips /\ [][NextTrips]_vars

\* a step that is a saveTrip or a duplicateTrip that made a trip
MadeTrip ==
    /\ hookCalls' = hookCalls + 1
    /\ lastCall'.op \in {"saveTrip", "duplicateTrip"}
    /\ lastCall'.returned # Null

\* C30: after any sequence of saveTrip, duplicateTrip, updateTrip and
\* deleteTrip calls the list holds at most 20 trips; a newly saved or
\* duplicated trip is at the front, followed by the trips that were there
\* before, the oldest dropped when the cap is exceeded; after deleteTrip(id)
\* no trip carries that id; and the list last written to localStorage is the
\* in-memory list.
C30_SavedTripsKept ==
    /\ [](/\ Len(savedTrips) <= MAX_SAVED_TRIPS
          /\ lastCall.op = "deleteTrip"
                => \A k \in DOMAIN savedTrips : savedTrips[k].id # lastCall.args[1]
          /\ savedTripsStorage # NoItem => JSON_parse(savedTripsStorage) = savedTrips)
    /\ [][MadeTrip =>
            /\ savedTrips' # <<>>
            /\ Head(savedTrips') = lastCall'.returned
            /\ Tail(savedTrips') =
                  SubSeq(savedTrips, 1,
                         IF Len(savedTrips) < MAX_SAVED_TRIPS THEN Len(savedTrips)
                         ELSE MAX_SAVED_TRIPS - 1)]_vars

\* a full list took one more trip: the new one is in front, the oldest one of
\* the stored list is gone, and a trip was deleted before
C30_Witness ==
    /\ Len(savedTrips) = MAX_SAVED_TRIPS
    /\ hookCalls = MaxCalls
    /\ lastCall.op = "duplicateTrip"
    /\ lastCall.returned # Null
    /\ savedTrips[1] = lastCall.returned
    /\ \A k \in DOMAIN savedTrips : savedTrips[k].id # TripId(1)
    /\ JSON_parse(savedTripsStorage) = savedTrips
=============================================================================
